---- MODULE Spec2Model ----
(***************************************************************************)
(* Session, profile bootstrap and favorites synchronisation of the         *)
(* directory browser (App.tsx, LoginPage.tsx, lib/firebase.ts).            *)
(*                                                                         *)
(* lib/firebase.ts carries two implementations of the same exports: the    *)
(* in-memory mock (lines 1-149) and the Firebase/Firestore one (lines      *)
(* 151-323).  The variable `backend` fixes which one a run is linked to.   *)
(***************************************************************************)
EXTENDS Integers, Sequences, FiniteSets, TLC

\* ---------------------------------------------------------------- bounds
MaxSignIns == 2
MaxToggles == 2
MaxCallbacks == 1

\* ------------------------------------------------------------- constants
Backends == {"mock", "firestore"}

Pages == {"home", "mcp", "skills", "plugins", "tools", "login", "submit"}

Domains == {"skills", "mcpServers", "tools", "plugins"}

ProfileDomains == {"skills", "mcpServers", "tools"}

Ids == {"a", "b"}

\* pages navigated to, and domains toggled on their pages: skills stands
\* for the three domains a profile is created with (mcp, tools alike)
NavPages == {"home", "skills", "plugins", "login"}

ToggleDomains == {"skills", "plugins"}

\* the item ids of the modelled catalogs
CatalogIds(type) == IF type = "plugins" THEN Ids ELSE {"a"}

Providers == {"google", "github"}

NoUser == "null"

ProviderUid(p) == IF p = "google" THEN "mock-google-uid" ELSE "mock-github-uid"

Uids == {ProviderUid(p) : p \in Providers}

PageOf(type) ==
  CASE type = "skills" -> "skills"
    [] type = "mcpServers" -> "mcp"
    [] type = "tools" -> "tools"
    [] type = "plugins" -> "plugins"

\* ------------------------------------------------------------ JS helpers
\* Array.prototype.includes
Includes(arr, x) == \E i \in 1..Len(arr) : arr[i] = x

\* arr.filter(itemId => itemId !== x)
Without(arr, x) == SelectSeq(arr, LAMBDA y : y # x)

\* [...arr, x]
Push(arr, x) == Append(arr, x)

Spread_Only(prev, type, value) == [k \in {type} |-> value]

\* { ...prev, [type]: value }
Spread(prev, type, value) ==
  [k \in (DOMAIN prev) \cup {type} |-> IF k = type THEN value ELSE prev[k]]

\* { skills: [], mcpServers: [], tools: [], plugins: [] }
EmptyFavorites_KeepSkills ==
  [d \in Domains |-> IF d = "skills" THEN <<"a">> ELSE <<>>]

EmptyFavorites == [d \in Domains |-> <<>>]

\* favorites: { skills: [], mcpServers: [], tools: [] } of a created profile
EmptyProfileFavorites == [d \in ProfileDomains |-> <<>>]

\* remove the i-th element of a sequence
RemoveAt(s, i) == SubSeq(s, 1, i - 1) \o SubSeq(s, i + 1, Len(s))

\* ------------------------------------------------------ listing pages
\* longest catalog, longest search query
MaxCatalog == 2
MaxQuery == 2

\* strings are sequences of characters
Chars == {"a", "A", "b"}

\* String.prototype.toLowerCase
LowerChar(ch) == IF ch = "A" THEN "a" ELSE ch
ToLowerCase(str) == [i \in 1..Len(str) |-> LowerChar(str[i])]

\* String.prototype.includes
StrIncludes(str, sub) ==
  \E i \in 0..(Len(str) - Len(sub)) : SubSeq(str, i + 1, i + Len(sub)) = sub

\* tags.some((tag) => tag.toLowerCase().includes(lowered))
SomeTagIncludes(tags, lowered) ==
  \E i \in 1..Len(tags) : StrIncludes(ToLowerCase(tags[i]), lowered)

\* tags.some((tag) => tag.includes(sub))
SomeTagIncludes_CaseSensitive(tags, sub) ==
  \E i \in 1..Len(tags) : StrIncludes(tags[i], sub)

\* the pages that list a catalog
ListingPages == {"skills", "mcp", "tools", "plugins"}

\* the texts the data files are drawn from
Names == {<<"A">>, <<"b">>}
Descriptions == {<<>>, <<"b", "A">>}
TagLists == {<<>>, << <<"A">>, <<"A", "b">> >>}
Authors == {<<"b">>, <<"A", "b">>}
Categories == {"Development", "Testing"}
Sources == {"official", "community"}

\* what the search box and the facet buttons can be set to
Queries == UNION {[1..n -> Chars] : n \in 0..MaxQuery}
CategoryChoices == {"All"} \cup Categories
SourceChoices == {"all"} \cup Sources

Skills == [id : Ids, name : Names, description : Descriptions,
           tags : TagLists, category : Categories]
Servers == [id : Ids, name : Names, description : Descriptions,
            author : Authors, category : Categories]
Plugins == [id : Ids, name : Names, description : Descriptions,
            tags : TagLists, category : Categories, source : Sources]

ItemsOf(page) ==
  CASE page = "mcp" -> Servers
    [] page = "plugins" -> Plugins
    [] OTHER -> Skills

\* the data files: lists of at most MaxCatalog items, each with an id of
\* its own
Catalogs(page) ==
  {data \in UNION {[1..n -> ItemsOf(page)] : n \in 0..MaxCatalog} :
     \A i, j \in 1..Len(data) : i # j => data[i].id # data[j].id}

matchesSearch_NameOnly(item, searchQuery) ==
  StrIncludes(ToLowerCase(item.name), ToLowerCase(searchQuery))

matchesSearch_CaseSensitive(item, searchQuery) ==
  \/ StrIncludes(item.name, searchQuery)
  \/ StrIncludes(item.description, searchQuery)
  \/ SomeTagIncludes_CaseSensitive(item.tags, searchQuery)

\* matchesSearch of SkillsPage, ToolsPage and PluginsPage
matchesSearch(item, searchQuery) ==
  \/ StrIncludes(ToLowerCase(item.name), ToLowerCase(searchQuery))
  \/ StrIncludes(ToLowerCase(item.description), ToLowerCase(searchQuery))
  \/ SomeTagIncludes(item.tags, ToLowerCase(searchQuery))

matchesSearchServer_NoAuthor(server, searchQuery) ==
  \/ StrIncludes(ToLowerCase(server.name), ToLowerCase(searchQuery))
  \/ StrIncludes(ToLowerCase(server.description), ToLowerCase(searchQuery))

\* matchesSearch of MCPPage: the author stands where the tags are
matchesSearchServer(server, searchQuery) ==
  \/ StrIncludes(ToLowerCase(server.name), ToLowerCase(searchQuery))
  \/ StrIncludes(ToLowerCase(server.description), ToLowerCase(searchQuery))
  \/ StrIncludes(ToLowerCase(server.author), ToLowerCase(searchQuery))

matchesCategory(item, selectedCategory) ==
  selectedCategory = "All" \/ item.category = selectedCategory

matchesSource(plugin, sourceFilter) ==
  sourceFilter = "all" \/ plugin.source = sourceFilter

filteredSkills(skills, searchQuery, selectedCategory) ==
  SelectSeq(skills, LAMBDA skill :
    matchesSearch(skill, searchQuery) /\ matchesCategory(skill, selectedCategory))

filteredServers(mcpServers, searchQuery, selectedCategory) ==
  SelectSeq(mcpServers, LAMBDA server :
    matchesSearchServer(server, searchQuery) /\ matchesCategory(server, selectedCategory))

filteredTools(tools, searchQuery, selectedCategory) ==
  SelectSeq(tools, LAMBDA tool :
    matchesSearch(tool, searchQuery) /\ matchesCategory(tool, selectedCategory))

filteredPlugins(plugins, searchQuery, selectedCategory, sourceFilter) ==
  SelectSeq(plugins, LAMBDA plugin :
    /\ matchesSearch(plugin, searchQuery)
    /\ matchesCategory(plugin, selectedCategory)
    /\ matchesSource(plugin, sourceFilter))

Filtered_Reversed(page, data, searchQuery, selectedCategory, sourceFilter) ==
  LET kept == CASE page = "mcp" -> filteredServers(data, searchQuery, selectedCategory)
                [] page = "plugins" ->
                     filteredPlugins(data, searchQuery, selectedCategory, sourceFilter)
                [] OTHER -> filteredSkills(data, searchQuery, selectedCategory)
  IN [i \in 1..Len(kept) |-> kept[Len(kept) + 1 - i]]

Filtered_DropsFirst(page, data, searchQuery, selectedCategory, sourceFilter) ==
  IF data = <<>> THEN <<>> ELSE Tail(data)

Filtered_OverQuery(page, data, searchQuery, selectedCategory, sourceFilter) ==
  SelectSeq(data, LAMBDA item :
    /\ searchQuery # <<>>
    /\ StrIncludes(ToLowerCase(item.name), ToLowerCase(searchQuery)))

\* the list a listing page renders: its useMemo over the data file
Filtered(page, data, searchQuery, selectedCategory, sourceFilter) ==
  CASE page = "skills" -> filteredSkills(data, searchQuery, selectedCategory)
    [] page = "mcp" -> filteredServers(data, searchQuery, selectedCategory)
    [] page = "tools" -> filteredTools(data, searchQuery, selectedCategory)
    [] page = "plugins" ->
         filteredPlugins(data, searchQuery, selectedCategory, sourceFilter)

Cards_FavoritesOnly(list, favs) ==
  LET kept == SelectSeq(list, LAMBDA item : Includes(favs, item.id))
  IN [i \in 1..Len(kept) |-> [item |-> kept[i], isFavorite |-> TRUE]]

\* the cards a listing page renders: each item of the filtered list with
\* its favorite mark
Cards(list, favs) ==
  [i \in 1..Len(list) |->
     [item |-> list[i], isFavorite |-> Includes(favs, list[i].id)]]


VARIABLES
  backend,        \* which implementation of lib/firebase.ts is linked
  currentPage,    \* App: useState<Page>
  user,           \* App: useState<User|null>, a uid or NoUser
  favorites,      \* App: useState favorites, domain -> array of ids
  isAuthLoading,  \* App: useState(true)
  error,          \* LoginPage: useState<string|null>
  crashed,        \* an exception thrown while rendering unmounted the tree
  currentUser,    \* the auth capability's current identity
  authReports,    \* auth reports queued for the subscribed callback
  callbacks,      \* suspended instances of the auth callback
  login,          \* the suspended handleSocialLogin, or Idle
  toggles,        \* suspended handleToggleFavorite instances, request order
  users,          \* the profile store: uid -> favorites of the profile
  createCalls,    \* createUserProfile calls per uid since the last sign-in began
  signIns,        \* number of sign-ins started
  nToggles,       \* number of accepted toggles
  signal,         \* what the last step signalled outside the handlers
  catalog,        \* the data file of the listing page under study
  searchQuery,    \* listing page: useState('')
  selectedCategory, \* listing page: useState('All')
  sourceFilter,   \* PluginsPage: useState('all')
  filtered        \* listing page: the useMemo result of the last render

vars == <<backend, currentPage, user, favorites, isAuthLoading, error,
          crashed, currentUser, authReports, callbacks, login,
          toggles, users, createCalls, signIns, nToggles, signal,
          catalog, searchQuery, selectedCategory, sourceFilter, filtered>>

\* the state of the listing page
pageVars == <<catalog, searchQuery, selectedCategory, sourceFilter, filtered>>

Idle == [pc |-> "idle", uid |-> NoUser, mounted |-> FALSE]

NoCalls == [u \in Uids |-> 0]

NoProfiles == [u \in {} |-> EmptyProfileFavorites]

\* new Map entry / document for uid
SetProfile(store, uid, favs) ==
  [u \in (DOMAIN store) \cup {uid} |-> IF u = uid THEN favs ELSE store[u]]

\* the first report of a fresh subscription: the mock arms a timer that
\* reads currentUser when it fires, Firebase queues the persisted identity
FirstReport(b, cu) == IF b = "mock" THEN <<"timer">> ELSE <<cu>>

\* promise continuations of the mock run as microtasks: no UI event or
\* timer is served between a mock call and its continuation
Quiet == backend = "mock" => (toggles = <<>> /\ callbacks = <<>>)

\* a render-time exception unmounts the whole tree
Mounted == ~crashed

\* a profile left in Firestore by an earlier session of the google user:
\* created by createUserProfile, then skill "a" and plugin "a" favorited
\* (updateDoc with arrayUnion adds the plugins field)
StoredProfile ==
  [d \in Domains |-> IF d \in {"skills", "plugins"} THEN <<"a">> ELSE <<>>]

\* what the page load finds.  The mock starts empty and signed out.
\* Firebase is new to this browser, or holds the stored profile of an
\* earlier session, with or without that session's persisted identity
Loads(b) ==
  IF b = "mock"
  THEN {[identity |-> NoUser, store |-> NoProfiles]}
  ELSE {[identity |-> NoUser, store |-> NoProfiles],
        [identity |-> NoUser,
         store |-> SetProfile(NoProfiles, ProviderUid("google"), StoredProfile)],
        [identity |-> ProviderUid("google"),
         store |-> SetProfile(NoProfiles, ProviderUid("google"), StoredProfile)]}

Init ==
  /\ backend \in Backends
  /\ currentPage = "home"
  /\ user = NoUser
  /\ favorites = EmptyFavorites
  /\ isAuthLoading = TRUE
  /\ error = "null"
  /\ crashed = FALSE
  /\ \E load \in Loads(backend) :
        /\ currentUser = load.identity
        /\ users = load.store
  /\ authReports = FirstReport(backend, currentUser)
  /\ callbacks = <<>>
  /\ login = Idle
  /\ toggles = <<>>
  /\ createCalls = NoCalls
  /\ signIns = 0
  /\ nToggles = 0
  /\ signal = "none"
  /\ catalog = <<>>
  /\ searchQuery = <<>>
  /\ selectedCategory = "All"
  /\ sourceFilter = "all"
  /\ filtered = <<>>

\* ------------------------------------------------- auth state subscription
\* the callback up to its first await, or to its end on a null report
AuthCallback ==
  /\ signal' = "none"
  /\ authReports # <<>>
  /\ Quiet
  /\ LET r == Head(authReports)
         firebaseUser == IF r = "timer" THEN currentUser ELSE r
     IN /\ authReports' = Tail(authReports)
        /\ IF firebaseUser # NoUser
           THEN /\ Len(callbacks) < MaxCallbacks
                /\ user' = firebaseUser
                /\ callbacks' = Append(callbacks, [uid |-> firebaseUser, pc |-> "get1"])
                /\ UNCHANGED <<favorites, isAuthLoading>>
           ELSE /\ user' = NoUser
                /\ favorites' = EmptyFavorites
                /\ isAuthLoading' = FALSE
                /\ UNCHANGED callbacks
  /\ UNCHANGED <<pageVars, backend, currentPage, error, crashed, currentUser,
                 login, toggles, users, createCalls, signIns, nToggles>>

Hydrate_KeepLocal(prev, profileFavorites) == prev

\* setFavorites(profile.favorites): the fetched object replaces the state
Hydrate(prev, profileFavorites) == profileFavorites

\* getUserProfile resolves inside the callback (first or second fetch)
GetProfileResolve(i) ==
  /\ signal' = "none"
  /\ i \in 1..Len(callbacks)
  /\ callbacks[i].pc \in {"get1", "get2"}
  /\ LET cb == callbacks[i]
         found == cb.uid \in DOMAIN users
     IN IF found
        THEN /\ favorites' = Hydrate(favorites, users[cb.uid])
             /\ isAuthLoading' = FALSE
             /\ callbacks' = RemoveAt(callbacks, i)
             /\ UNCHANGED <<users, createCalls>>
        ELSE IF cb.pc = "get1"
             THEN /\ createCalls' = [createCalls EXCEPT ![cb.uid] = @ + 1]
                  /\ IF backend = "mock"
                     THEN /\ users' = SetProfile(users, cb.uid, EmptyProfileFavorites)
                          /\ callbacks' = [callbacks EXCEPT ![i].pc = "get2"]
                     ELSE /\ callbacks' = [callbacks EXCEPT ![i].pc = "createGetDoc"]
                          /\ UNCHANGED users
                  /\ UNCHANGED <<favorites, isAuthLoading>>
             ELSE /\ isAuthLoading' = FALSE
                  /\ callbacks' = RemoveAt(callbacks, i)
                  /\ UNCHANGED <<favorites, users, createCalls>>
  /\ UNCHANGED <<pageVars, backend, currentPage, user, error, crashed, currentUser,
                 authReports, login, toggles, signIns, nToggles>>

\* createUserProfile inside the callback: getDoc resolves
CallbackCreateGetDoc(i) ==
  /\ signal' = "none"
  /\ i \in 1..Len(callbacks)
  /\ callbacks[i].pc = "createGetDoc"
  /\ callbacks' = [callbacks EXCEPT ![i].pc =
                     IF callbacks[i].uid \in DOMAIN users THEN "get2" ELSE "createSetDoc"]
  /\ UNCHANGED <<pageVars, backend, currentPage, user, favorites, isAuthLoading, error,
                 crashed, currentUser, authReports, login, toggles,
                 users, createCalls, signIns, nToggles>>

\* createUserProfile inside the callback: setDoc resolves
CallbackCreateSetDoc(i) ==
  /\ signal' = "none"
  /\ i \in 1..Len(callbacks)
  /\ callbacks[i].pc = "createSetDoc"
  /\ users' = SetProfile(users, callbacks[i].uid, EmptyProfileFavorites)
  /\ callbacks' = [callbacks EXCEPT ![i].pc = "get2"]
  /\ UNCHANGED <<pageVars, backend, currentPage, user, favorites, isAuthLoading, error,
                 crashed, currentUser, authReports, login, toggles,
                 createCalls, signIns, nToggles>>

\* a Firestore call awaited by the callback rejects: nothing catches it
CallbackStoreError(i) ==
  /\ backend = "firestore"
  /\ i \in 1..Len(callbacks)
  /\ callbacks' = RemoveAt(callbacks, i)
  /\ signal' = "unhandled-rejection"
  /\ UNCHANGED <<pageVars, backend, crashed, currentPage, user, favorites, isAuthLoading, error,
                 currentUser, authReports, login, toggles, users,
                 createCalls, signIns, nToggles>>

\* ------------------------------------------------------------ login page
\* the auth capability takes a new identity and notifies its listeners
\* when its uid changes
Notify(uid) == IF currentUser # uid THEN Append(authReports, uid) ELSE authReports

\* handleSocialLogin up to `await signInWith...()` (Firebase popup)
SocialLoginStart(provider) ==
  /\ signal' = "none"
  /\ backend = "firestore"
  /\ Mounted /\ ~isAuthLoading
  /\ currentPage = "login" /\ user = NoUser
  /\ login.pc = "idle"
  /\ signIns < MaxSignIns
  /\ signIns' = signIns + 1
  /\ error' = "null"
  /\ login' = [pc |-> "signIn", uid |-> ProviderUid(provider), mounted |-> TRUE]
  /\ createCalls' = NoCalls
  /\ UNCHANGED <<pageVars, backend, currentPage, user, favorites, isAuthLoading, crashed,
                 currentUser, authReports, callbacks, toggles,
                 users, nToggles>>

\* signInWithPopup resolves; createUserProfile(result.user) is called
SignInResolve ==
  /\ signal' = "none"
  /\ login.pc = "signIn"
  /\ currentUser' = login.uid
  /\ authReports' = Notify(login.uid)
  /\ createCalls' = [createCalls EXCEPT ![login.uid] = @ + 1]
  /\ login' = [login EXCEPT !.pc = "createGetDoc"]
  /\ UNCHANGED <<pageVars, backend, currentPage, user, favorites, isAuthLoading, error,
                 crashed, callbacks, toggles, users, signIns, nToggles>>

\* signInWithPopup rejects (popup closed by the user, or any other cause):
\* the catch block sets the message whatever the cause
SignInReject(cause) ==
  /\ signal' = "none"
  /\ login.pc = "signIn"
  /\ cause \in {"popup-closed-by-user", "network-request-failed"}
  /\ error' = IF login.mounted THEN cause ELSE error
  /\ login' = Idle
  /\ UNCHANGED <<pageVars, backend, currentPage, user, favorites, isAuthLoading, crashed,
                 currentUser, authReports, callbacks, toggles,
                 users, createCalls, signIns, nToggles>>

\* onLogin?.(result.user) -> App.handleLogin
OnLogin(uid) == user' = uid

\* createUserProfile inside handleSocialLogin: getDoc resolves
LoginCreateGetDoc ==
  /\ signal' = "none"
  /\ login.pc = "createGetDoc"
  /\ IF login.uid \in DOMAIN users
     THEN /\ OnLogin(login.uid)
          /\ login' = Idle
     ELSE /\ login' = [login EXCEPT !.pc = "createSetDoc"]
          /\ UNCHANGED user
  /\ UNCHANGED <<pageVars, backend, currentPage, favorites, isAuthLoading, error, crashed,
                 currentUser, authReports, callbacks, toggles,
                 users, createCalls, signIns, nToggles>>

\* createUserProfile inside handleSocialLogin: setDoc resolves
LoginCreateSetDoc ==
  /\ signal' = "none"
  /\ login.pc = "createSetDoc"
  /\ users' = SetProfile(users, login.uid, EmptyProfileFavorites)
  /\ OnLogin(login.uid)
  /\ login' = Idle
  /\ UNCHANGED <<pageVars, backend, currentPage, favorites, isAuthLoading, error, crashed,
                 currentUser, authReports, callbacks, toggles,
                 createCalls, signIns, nToggles>>

\* createUserProfile rejects inside handleSocialLogin: caught, message set
LoginStoreError ==
  /\ signal' = "none"
  /\ login.pc \in {"createGetDoc", "createSetDoc"}
  /\ error' = IF login.mounted THEN "store-error" ELSE error
  /\ login' = Idle
  /\ UNCHANGED <<pageVars, backend, currentPage, user, favorites, isAuthLoading, crashed,
                 currentUser, authReports, callbacks, toggles,
                 users, createCalls, signIns, nToggles>>

\* handleSocialLogin against the mock: every await resolves in a microtask,
\* so sign-in, createUserProfile and onLogin run without interleaving
MockSocialLogin(provider) ==
  /\ signal' = "none"
  /\ backend = "mock"
  /\ Quiet /\ Mounted /\ ~isAuthLoading
  /\ currentPage = "login" /\ user = NoUser
  /\ signIns < MaxSignIns
  /\ signIns' = signIns + 1
  /\ error' = "null"
  /\ currentUser' = ProviderUid(provider)
  /\ createCalls' = [NoCalls EXCEPT ![ProviderUid(provider)] = 1]
  /\ users' = SetProfile(users, ProviderUid(provider), EmptyProfileFavorites)
  /\ OnLogin(ProviderUid(provider))
  /\ UNCHANGED <<pageVars, backend, currentPage, favorites, isAuthLoading, crashed,
                 authReports, callbacks, login, toggles, nToggles>>

\* LoginPage.handleLogout: logOut() then window.location.reload().  The
\* reload rebuilds the client; the mock's module state is rebuilt with it,
\* Firebase keeps the store and the (now absent) identity
LoginPageLogout ==
  /\ signal' = "none"
  /\ Quiet /\ Mounted /\ ~isAuthLoading
  /\ currentPage = "login" /\ user # NoUser
  /\ currentUser' = NoUser
  /\ authReports' = FirstReport(backend, NoUser)
  /\ currentPage' = "home"
  /\ user' = NoUser
  /\ favorites' = EmptyFavorites
  /\ isAuthLoading' = TRUE
  /\ error' = "null"
  /\ crashed' = FALSE
  /\ callbacks' = <<>>
  /\ login' = Idle
  /\ toggles' = <<>>
  /\ users' = IF backend = "mock" THEN NoProfiles ELSE users
  /\ createCalls' = NoCalls
  /\ UNCHANGED <<pageVars, backend, signIns, nToggles>>

\* ------------------------------------------------------------------ App
\* where the link to a page is rendered: the Header links home and skills
\* everywhere, its Login button only while signed out; the plugins card is
\* on the home page
Linked(page) ==
  CASE page = "plugins" -> currentPage = "home"
    [] page = "login" -> user = NoUser
    [] OTHER -> TRUE

HandlePageChange_Clearing(page) ==
  /\ signal' = "none"
  /\ Quiet /\ Mounted /\ ~isAuthLoading
  /\ page \in NavPages
  /\ Linked(page)
  /\ page # currentPage
  /\ currentPage' = page
  /\ favorites' = [d \in Domains |-> <<>>]
  /\ error' = IF currentPage = "login" THEN "null" ELSE error
  /\ login' = IF currentPage = "login" THEN [login EXCEPT !.mounted = FALSE] ELSE login
  /\ UNCHANGED <<pageVars, backend, user, isAuthLoading, crashed, currentUser,
                 authReports, callbacks, toggles, users,
                 createCalls, signIns, nToggles>>

\* handlePageChange; leaving the login page unmounts LoginPage and its state
HandlePageChange(page) ==
  /\ signal' = "none"
  /\ Quiet /\ Mounted /\ ~isAuthLoading
  /\ page \in NavPages
  /\ Linked(page)
  /\ page # currentPage
  /\ currentPage' = page
  /\ error' = IF currentPage = "login" THEN "null" ELSE error
  /\ login' = IF currentPage = "login" THEN [login EXCEPT !.mounted = FALSE] ELSE login
  /\ UNCHANGED <<pageVars, backend, user, favorites, isAuthLoading, crashed, currentUser,
                 authReports, callbacks, toggles, users,
                 createCalls, signIns, nToggles>>

HandleLogout_Reloading ==
  /\ signal' = "none"
  /\ Quiet /\ Mounted /\ ~isAuthLoading
  /\ user # NoUser
  /\ user' = NoUser
  /\ favorites' = [d \in Domains |-> <<>>]
  /\ isAuthLoading' = TRUE
  /\ UNCHANGED <<pageVars, backend, currentPage, error, crashed, currentUser,
                 authReports, callbacks, login, toggles, users,
                 createCalls, signIns, nToggles>>

\* handleLogout (Header logout button)
HandleLogout ==
  /\ signal' = "none"
  /\ Quiet /\ Mounted /\ ~isAuthLoading
  /\ user # NoUser
  /\ user' = NoUser
  /\ favorites' = EmptyFavorites
  /\ UNCHANGED <<pageVars, backend, currentPage, isAuthLoading, error, crashed, currentUser,
                 authReports, callbacks, login, toggles, users,
                 createCalls, signIns, nToggles>>

\* -------------------------------------------------------- profile store
\* mock updateFavorites: does the call throw?  (profile.favorites[type] is
\* undefined for a domain the profile was not created with)
MockUpdateThrows(store, uid, type) ==
  uid \in DOMAIN store /\ type \notin DOMAIN store[uid]

\* mock updateFavorites: the store after a call that does not throw
MockUpdateFavorites(store, uid, type, itemId, action) ==
  IF uid \notin DOMAIN store
  THEN store
  ELSE [store EXCEPT ![uid] =
          Spread(@, type, IF action = "add" THEN Push(@[type], itemId)
                                             ELSE Without(@[type], itemId))]

\* Firestore arrayUnion / arrayRemove on a field that may be missing
ArrayUnion(doc, field, x) ==
  IF field \in DOMAIN doc
  THEN (IF Includes(doc[field], x) THEN doc[field] ELSE Push(doc[field], x))
  ELSE <<x>>

ArrayRemove(doc, field, x) ==
  IF field \in DOMAIN doc THEN Without(doc[field], x) ELSE <<>>

\* Firestore updateFavorites on an existing document (updateDoc)
UpdateFavorites(store, uid, type, itemId, action) ==
  [store EXCEPT ![uid] =
     Spread(@, type, IF action = "add" THEN ArrayUnion(@, type, itemId)
                                        ELSE ArrayRemove(@, type, itemId))]

Action_AlwaysAdd(isFavorite) == "add"

\* const action = isFavorite ? 'remove' : 'add'
Action(isFavorite) == IF isFavorite THEN "remove" ELSE "add"

\* mutants of OptimisticUpdate: no local update before the remote call
\* resolves; a full-set replace instead of a single-item add/remove
OptimisticUpdate_Deferred(prev, type, id, action) == prev

OptimisticUpdate_Replace(prev, type, id, action) ==
  Spread(prev, type, IF action = "add" THEN <<id>> ELSE <<>>)

OptimisticUpdate_AlwaysAdd(prev, type, id, action) ==
  Spread(prev, type, Push(prev[type], id))

\* the optimistic updater of handleToggleFavorite
OptimisticUpdate(prev, type, id, action) ==
  Spread(prev, type, IF action = "add" THEN Push(prev[type], id)
                                        ELSE Without(prev[type], id))

\* the updater of the catch block
Revert(prev, type, id, isFavorite) ==
  Spread(prev, type, IF isFavorite THEN Push(prev[type], id)
                                    ELSE Without(prev[type], id))

\* the mutant of IsAnonymous: the guard `if (!user)` left out
NeverAnonymous == FALSE

\* `if (!user)` at the head of handleToggleFavorite
IsAnonymous == user = NoUser

\* favorites.includes(id) as the pages evaluate it (the prop defaults to [])
IsFav(favs, type, id) == type \in DOMAIN favs /\ Includes(favs[type], id)

\* bookkeeping on the suspended toggles when toggle(type, id) is accepted:
\* sameId / otherId record that a later toggle on the same item, or on
\* another item of the same domain, was applied while the call was pending
Overtaken(pending, type, id) ==
  [i \in 1..Len(pending) |->
     IF pending[i].type # type THEN pending[i]
     ELSE IF pending[i].id = id THEN [pending[i] EXCEPT !.sameId = TRUE]
     ELSE [pending[i] EXCEPT !.otherId = TRUE]]

\* ------------------------------------------------------ favorites toggle
\* handleToggleFavorite up to `await updateFavorites(...)`
HandleToggleFavorite(type, id) ==
  /\ Quiet /\ Mounted /\ ~isAuthLoading
  /\ currentPage = PageOf(type)
  /\ IF IsAnonymous
     THEN \* redirect to login if not authenticated
          /\ currentPage' = "login"
          /\ signal' = "sign-in-required"
          /\ UNCHANGED <<favorites, crashed, toggles, users, nToggles>>
     ELSE IF type \notin DOMAIN favorites
     THEN \* favorites[type].includes throws inside the async handler
          /\ signal' = "unhandled-rejection"
          /\ UNCHANGED <<currentPage, favorites, toggles, users, nToggles, crashed>>
     ELSE LET isFavorite == Includes(favorites[type], id)
              action == Action(isFavorite)
              throws == backend = "mock" /\ MockUpdateThrows(users, user, type)
          IN /\ nToggles < MaxToggles
             /\ nToggles' = nToggles + 1
             /\ favorites' = OptimisticUpdate(favorites, type, id, action)
             /\ toggles' = Append(Overtaken(toggles, type, id),
                  [type |-> type, id |-> id, isFavorite |-> isFavorite, uid |-> user,
                   outcome |-> IF backend = "firestore" THEN "pending"
                               ELSE IF throws THEN "rejected" ELSE "resolved",
                   sameId |-> FALSE, otherId |-> FALSE])
             /\ users' = IF backend = "mock" /\ ~throws
                         THEN MockUpdateFavorites(users, user, type, id, action)
                         ELSE users
             /\ signal' = "none"
             /\ UNCHANGED <<currentPage, crashed>>
  /\ UNCHANGED <<pageVars, backend, user, isAuthLoading, error, currentUser,
                 authReports, callbacks, login, createCalls, signIns>>

\* `await updateFavorites(...)` resolves: nothing more to do
ToggleResolve(i) ==
  /\ signal' = "none"
  /\ i \in 1..Len(toggles)
  /\ LET t == toggles[i]
     IN IF backend = "mock"
        THEN /\ t.outcome = "resolved"
             /\ UNCHANGED users
        ELSE /\ t.uid \in DOMAIN users
             /\ users' = UpdateFavorites(users, t.uid, t.type, t.id, Action(t.isFavorite))
  /\ toggles' = RemoveAt(toggles, i)
  /\ UNCHANGED <<pageVars, backend, currentPage, user, favorites, isAuthLoading, error,
                 crashed, currentUser, authReports, callbacks,
                 login, createCalls, signIns, nToggles>>

\* `await updateFavorites(...)` rejects: the catch block reverts
ToggleReject(i) ==
  /\ signal' = "none"
  /\ i \in 1..Len(toggles)
  /\ backend = "mock" => toggles[i].outcome = "rejected"
  /\ LET t == toggles[i]
     IN IF t.type \in DOMAIN favorites
        THEN /\ favorites' = Revert(favorites, t.type, t.id, t.isFavorite)
             /\ UNCHANGED crashed
        ELSE \* prev[type] is undefined: the updater throws while rendering
             /\ crashed' = TRUE
             /\ UNCHANGED favorites
  /\ toggles' = RemoveAt(toggles, i)
  /\ UNCHANGED <<pageVars, backend, currentPage, user, isAuthLoading, error, currentUser,
                 authReports, callbacks, login, users, createCalls,
                 signIns, nToggles>>

Next ==
  \/ AuthCallback
  \/ \E i \in 1..MaxCallbacks : GetProfileResolve(i)
  \/ \E i \in 1..MaxCallbacks : CallbackCreateGetDoc(i)
  \/ \E i \in 1..MaxCallbacks : CallbackCreateSetDoc(i)
  \/ \E i \in 1..MaxCallbacks : CallbackStoreError(i)
  \/ \E p \in Providers : SocialLoginStart(p)
  \/ SignInResolve
  \/ \E c \in {"popup-closed-by-user", "network-request-failed"} : SignInReject(c)
  \/ LoginCreateGetDoc
  \/ LoginCreateSetDoc
  \/ LoginStoreError
  \/ \E p \in Providers : MockSocialLogin(p)
  \/ LoginPageLogout
  \/ \E page \in NavPages : HandlePageChange(page)
  \/ HandleLogout
  \/ \E type \in ToggleDomains : \E id \in CatalogIds(type) : HandleToggleFavorite(type, id)
  \/ \E i \in 1..MaxToggles : ToggleResolve(i)
  \/ \E i \in 1..MaxToggles : ToggleReject(i)

Spec == Init /\ [][Next]_vars

\* the same program with a profile store whose calls never reject
NextReliable ==
  \/ AuthCallback
  \/ \E i \in 1..MaxCallbacks : GetProfileResolve(i)
  \/ \E i \in 1..MaxCallbacks : CallbackCreateGetDoc(i)
  \/ \E i \in 1..MaxCallbacks : CallbackCreateSetDoc(i)
  \/ \E p \in Providers : SocialLoginStart(p)
  \/ SignInResolve
  \/ \E c \in {"popup-closed-by-user", "network-request-failed"} : SignInReject(c)
  \/ LoginCreateGetDoc
  \/ LoginCreateSetDoc
  \/ \E p \in Providers : MockSocialLogin(p)
  \/ LoginPageLogout
  \/ \E page \in NavPages : HandlePageChange(page)
  \/ HandleLogout
  \/ \E type \in ToggleDomains : \E id \in CatalogIds(type) : HandleToggleFavorite(type, id)
  \/ \E i \in 1..MaxToggles : ToggleResolve(i)
  \/ \E i \in 1..MaxToggles : backend = "mock" /\ ToggleReject(i)

SpecReliable == Init /\ [][NextReliable]_vars

\* ----------------------------------------------------------------- claims
\* ------------------------------------------- a listing page on its own
\* a listing page is mounted over its data file, with the criteria of a
\* fresh visit; the application around it is the anonymous session after
\* its first auth report
InitFilter ==
  /\ backend = "mock"
  /\ currentPage \in ListingPages
  /\ user = NoUser
  /\ favorites = EmptyFavorites
  /\ isAuthLoading = FALSE
  /\ error = "null"
  /\ crashed = FALSE
  /\ currentUser = NoUser
  /\ users = NoProfiles
  /\ authReports = <<>>
  /\ callbacks = <<>>
  /\ login = Idle
  /\ toggles = <<>>
  /\ createCalls = NoCalls
  /\ signIns = 0
  /\ nToggles = 0
  /\ signal = "none"
  /\ catalog \in Catalogs(currentPage)
  /\ searchQuery = <<>>
  /\ selectedCategory = "All"
  /\ sourceFilter = "all"
  /\ filtered = Filtered(currentPage, catalog, <<>>, "All", "all")

\* the variables of the application around the page
appVars == <<backend, currentPage, user, favorites, isAuthLoading, error,
             crashed, currentUser, authReports, callbacks, login,
             toggles, users, createCalls, signIns, nToggles, signal>>

\* onChange of the search input: setSearchQuery, then the render's useMemo
SetSearchQuery(value) ==
  /\ value # searchQuery
  /\ searchQuery' = value
  /\ filtered' = Filtered(currentPage, catalog, value, selectedCategory, sourceFilter)
  /\ UNCHANGED <<appVars, catalog, selectedCategory, sourceFilter>>

\* onClick of a category button: setSelectedCategory, then the useMemo
SetSelectedCategory(category) ==
  /\ category # selectedCategory
  /\ selectedCategory' = category
  /\ filtered' = Filtered(currentPage, catalog, searchQuery, category, sourceFilter)
  /\ UNCHANGED <<appVars, catalog, searchQuery, sourceFilter>>

\* onClick of a source button of PluginsPage: setSourceFilter, then the useMemo
SetSourceFilter(source) ==
  /\ currentPage = "plugins"
  /\ source # sourceFilter
  /\ sourceFilter' = source
  /\ filtered' = Filtered(currentPage, catalog, searchQuery, selectedCategory, source)
  /\ UNCHANGED <<appVars, catalog, searchQuery, selectedCategory>>

NextFilter ==
  \/ \E value \in Queries : SetSearchQuery(value)
  \/ \E category \in CategoryChoices : SetSelectedCategory(category)
  \/ \E source \in SourceChoices : SetSourceFilter(source)

SpecFilter == InitFilter /\ [][NextFilter]_vars

\* C1: with no Identity present, toggle(domain, id) leaves FavoritesState
\* unchanged, issues no remote mutation and signals sign-in-required: the
\* current page becomes 'login'.
C1_AnonymousToggle ==
  [][\A type \in ToggleDomains : \A id \in CatalogIds(type) :
       (user = NoUser /\ HandleToggleFavorite(type, id)) =>
         /\ favorites' = favorites
         /\ toggles' = toggles
         /\ users' = users
         /\ nToggles' = nToggles
         /\ currentPage' = "login"]_vars

\* C1 witness: an anonymous session has just been sent to the login page
\* by a toggle
C1_Witness ==
  /\ signal = "sign-in-required"
  /\ user = NoUser
  /\ currentPage = "login"


\* an accepted toggle(type, id): Identity present and the handler did not throw
Accepted(type, id) ==
  /\ user # NoUser
  /\ type \in DOMAIN favorites
  /\ HandleToggleFavorite(type, id)

\* C2: a toggle's remote mutation fails and no other toggle on the same id
\* intervened: the local membership of id after the rollback equals its
\* membership before the toggle.
C2_Rollback ==
  [][\A i \in 1..MaxToggles :
       (ToggleReject(i) /\ ~toggles[i].sameId) =>
         IsFav(favorites', toggles[i].type, toggles[i].id) = toggles[i].isFavorite]_vars

\* C3: an accepted toggle(domain, id) flips the local membership of id in
\* that domain in the very step that leaves the remote mutation pending.
C3_OptimisticUpdate ==
  [][\A type \in ToggleDomains : \A id \in CatalogIds(type) :
       Accepted(type, id) =>
         /\ IsFav(favorites', type, id) = ~IsFav(favorites, type, id)
         /\ Len(toggles') = Len(toggles) + 1
         /\ toggles'[Len(toggles')].id = id
         /\ toggles'[Len(toggles')].type = type]_vars

\* C3 witness: a remote mutation is pending and readers see the flip
C3_Witness ==
  \E i \in 1..Len(toggles) :
    /\ toggles[i].outcome = "pending"
    /\ IsFav(favorites, toggles[i].type, toggles[i].id) = ~toggles[i].isFavorite


\* C4: toggles on different itemIds of one domain do not clobber each other:
\* an accepted toggle(domain, id) flips id against the current set and keeps
\* the membership of every other id of that domain, and a resolving remote
\* call changes nothing locally; so when all succeed every toggled id is
\* flipped exactly once.
C4_NoLostUpdate ==
  [][/\ \A type \in ToggleDomains : \A id \in CatalogIds(type) :
          Accepted(type, id) =>
            /\ IsFav(favorites', type, id) = ~IsFav(favorites, type, id)
            /\ \A other \in Ids \ {id} :
                  IsFav(favorites', type, other) = IsFav(favorites, type, other)
     /\ \A i \in 1..MaxToggles : ToggleResolve(i) => favorites' = favorites]_vars

\* C4 witness: two toggles on different ids of one domain are in flight and
\* both optimistic updates are visible
C4_Witness ==
  /\ Len(toggles) = 2
  /\ toggles[1].type = toggles[2].type
  /\ toggles[1].id # toggles[2].id
  /\ toggles[1].otherId
  /\ \A i \in 1..2 :
        IsFav(favorites, toggles[i].type, toggles[i].id) = ~toggles[i].isFavorite

\* C5: the remote call of a toggle on id x fails while toggles on other ids
\* of the same domain were applied in the meantime: the rollback restores
\* x's pre-toggle membership and leaves every other id of that domain as it
\* was just before the rollback.
C5_SingleItemRollback ==
  [][\A i \in 1..MaxToggles :
       (ToggleReject(i) /\ toggles[i].otherId) =>
         /\ IsFav(favorites', toggles[i].type, toggles[i].id) = toggles[i].isFavorite
         /\ \A other \in Ids \ {toggles[i].id} :
               IsFav(favorites', toggles[i].type, other)
                 = IsFav(favorites, toggles[i].type, other)]_vars


\* C6: the same item toggled again while its previous toggle is still
\* pending and visible: the second request is an independent toggle in
\* request order (it takes the opposite transition and brings the local
\* membership back to the pre-toggle one), and no resolving remote call, in
\* whatever order, changes the local state afterwards.
C6_TwoTogglesInOrder ==
  [][/\ \A type \in ToggleDomains : \A id \in CatalogIds(type) :
          \A i \in 1..Len(toggles) :
            ( /\ Accepted(type, id)
              /\ toggles[i].type = type /\ toggles[i].id = id /\ ~toggles[i].sameId
              /\ IsFav(favorites, type, id) = ~toggles[i].isFavorite ) =>
                /\ toggles'[Len(toggles')].isFavorite = ~toggles[i].isFavorite
                /\ IsFav(favorites', type, id) = toggles[i].isFavorite
     /\ \A i \in 1..MaxToggles : ToggleResolve(i) => favorites' = favorites]_vars

\* C6 witness: two toggles on one item are in flight, the second requested
\* before the first resolved, and the local membership is the pre-toggle one
C6_Witness ==
  /\ Len(toggles) = 2
  /\ toggles[1].type = toggles[2].type /\ toggles[1].id = toggles[2].id
  /\ toggles[1].sameId
  /\ toggles[2].isFavorite = ~toggles[1].isFavorite
  /\ IsFav(favorites, toggles[1].type, toggles[1].id) = toggles[1].isFavorite

\* C7: results that arrive after sign-out are discarded: whenever the
\* session has no Identity, FavoritesState is empty for all domains.
C7_AnonymousIsEmpty ==
  user = NoUser => favorites = EmptyFavorites

\* C8: a profile fetch or create that fails while the callback handles a
\* report carrying an Identity is not blocking: the session leaves LOADING,
\* is AUTHENTICATED with that Identity and an empty FavoritesState, and
\* nothing propagates as an uncaught fault.
C8_BootstrapFailure ==
  [][\A i \in 1..MaxCallbacks :
       CallbackStoreError(i) =>
         /\ ~isAuthLoading'
         /\ user' = callbacks[i].uid
         /\ favorites' = EmptyFavorites
         /\ signal' # "unhandled-rejection"]_vars

\* C9: over a sign-in flow of a uid (login page handler plus auth-state
\* callback) the profile store receives one create call for that uid,
\* never a second one.
C9_OneCreateCall ==
  \A u \in Uids : createCalls[u] <= 1

\* no asynchronous work of the session is left
Settled ==
  /\ authReports = <<>>
  /\ callbacks = <<>>
  /\ login.pc = "idle"
  /\ toggles = <<>>

\* C10: once a session that acquired an Identity has settled, with no
\* toggle made and no store failure, FavoritesState equals the favorites
\* stored in that uid's remote profile.
C10_HydratedOnSignIn ==
  (Settled /\ user # NoUser /\ nToggles = 0) =>
    /\ user \in DOMAIN users
    /\ \A d \in Domains : \A id \in Ids :
          IsFav(favorites, d, id) = IsFav(users[user], d, id)

\* C11: every stored profile, the ones createUserProfile writes included,
\* has a favorites set for each of the four domains, and FavoritesState
\* maps each of the four domains to a set, so that a toggle on any domain
\* reads a defined set.
C11_AllDomains ==
  /\ \A u \in DOMAIN users : Domains \subseteq DOMAIN users[u]
  /\ Domains \subseteq DOMAIN favorites

\* a step in which createUserProfile writes, or finds the profile present
CreateStep ==
  \/ LoginCreateGetDoc
  \/ LoginCreateSetDoc
  \/ \E i \in 1..MaxCallbacks : CallbackCreateGetDoc(i)
  \/ \E i \in 1..MaxCallbacks : CallbackCreateSetDoc(i)
  \/ \E i \in 1..MaxCallbacks : GetProfileResolve(i)
  \/ \E p \in Providers : MockSocialLogin(p)

\* C12: createUserProfile is a no-op on an existing profile: a step of
\* createUserProfile leaves every profile that is already stored as it is.
C12_CreateIsNoOp ==
  [][CreateStep =>
       \A u \in DOMAIN users : u \in DOMAIN users' /\ users'[u] = users[u]]_vars

\* the report at the head of the queue carries no identity
NoIdentityReport ==
  /\ authReports # <<>>
  /\ (IF Head(authReports) = "timer" THEN currentUser ELSE Head(authReports)) = NoUser

\* C13: every transition to ANONYMOUS (header logout, an auth report with
\* no identity, any step that removes the Identity) sets FavoritesState to
\* the empty set for all four domains and removes the Identity in the same
\* step.
C13_SignOutClears ==
  [][(HandleLogout \/ (AuthCallback /\ NoIdentityReport)
        \/ (user # NoUser /\ user' = NoUser)) =>
       /\ user' = NoUser
       /\ DOMAIN favorites' = Domains
       /\ \A d \in Domains : favorites'[d] = <<>>]_vars

\* C13 witness: a hydrated session with stored favorites was signed out by
\* the header button (the auth capability still holds the identity) and
\* FavoritesState is empty
C13_Witness ==
  /\ user = NoUser /\ currentUser # NoUser
  /\ ~isAuthLoading /\ authReports = <<>> /\ callbacks = <<>>
  /\ currentUser \in DOMAIN users
  /\ \E d \in DOMAIN users[currentUser] : users[currentUser][d] # <<>>
  /\ \A d \in Domains : favorites[d] = <<>>

\* C14: a sign-in that fails because the user closed the popup is silent:
\* the login handler shows no error and changes no session state.
C14_CancelIsSilent ==
  [][SignInReject("popup-closed-by-user") =>
       /\ error' = "null"
       /\ UNCHANGED <<user, favorites, currentPage, isAuthLoading>>]_vars

\* C15: the session starts in LOADING with no Identity, leaves LOADING only
\* in a step of the auth callback handling a report, and after that no
\* event of the running application returns it to LOADING (a page reload
\* starts the application, and the session, anew).
C15_SessionStateMachine ==
  /\ (isAuthLoading = TRUE /\ user = NoUser)
  /\ [][/\ (isAuthLoading /\ ~isAuthLoading') =>
             (AuthCallback \/ \E i \in 1..MaxCallbacks : GetProfileResolve(i))
        /\ (~isAuthLoading /\ isAuthLoading') => LoginPageLogout]_vars

\* C15 witness: the session left LOADING, and sign-in, logout and toggle
\* events followed
C15_Witness ==
  /\ ~isAuthLoading
  /\ signIns > 0 /\ nToggles > 0
  /\ user = NoUser /\ currentUser # NoUser

\* the criteria of a fresh visit: no query, category "All", source "all"
NoCriteria ==
  searchQuery = <<>> /\ selectedCategory = "All" /\ sourceFilter = "all"

\* C16: filter identity law: on every listing page and for every catalog,
\* the empty one included, with category "All", an empty query and (for
\* plugins) source "all" the filtered list equals the catalog.
C16_FilterIdentity ==
  /\ NoCriteria => filtered = catalog
  /\ Filtered(currentPage, catalog, <<>>, "All", "all") = catalog

\* C16 witness: under the criteria of a fresh visit a catalog of two
\* different items is listed whole
C16_Witness ==
  /\ NoCriteria
  /\ Len(catalog) = MaxCatalog /\ catalog[1] # catalog[2]
  /\ filtered = catalog

\* the matching rule, spelled out for one item
RuleCategory(item) == selectedCategory = "All" \/ selectedCategory = item.category

RuleSource(item) ==
  currentPage # "plugins" \/ sourceFilter = "all" \/ sourceFilter = item.source

RuleSearch(item) ==
  \/ searchQuery = <<>>
  \/ StrIncludes(ToLowerCase(item.name), ToLowerCase(searchQuery))
  \/ StrIncludes(ToLowerCase(item.description), ToLowerCase(searchQuery))
  \/ \E i \in 1..Len(item.tags) :
        StrIncludes(ToLowerCase(item.tags[i]), ToLowerCase(searchQuery))

\* C17: on the skills, tools and plugins pages an item of the catalog is in
\* the filtered list iff its category matches (or "All"), its source
\* matches (or "all", or the page has no source facet) and the query is
\* empty or, lowercased, a substring of the lowercased name, description or
\* one of the tags.
C17_MatchingRule ==
  currentPage \in {"skills", "tools", "plugins"} =>
    \A i \in 1..Len(catalog) :
      Includes(filtered, catalog[i]) <=>
        (RuleCategory(catalog[i]) /\ RuleSource(catalog[i]) /\ RuleSearch(catalog[i]))

\* C17 witness: a two-letter query in capitals matches one item through a
\* tag only and not the other item of the catalog
C17_Witness ==
  /\ currentPage \in {"skills", "tools", "plugins"}
  /\ searchQuery = <<"A", "b">>
  /\ Len(catalog) = MaxCatalog /\ Len(filtered) = 1
  /\ ~StrIncludes(ToLowerCase(filtered[1].name), ToLowerCase(searchQuery))
  /\ ~StrIncludes(ToLowerCase(filtered[1].description), ToLowerCase(searchQuery))

\* C18: filter idempotence: filtering the filtered list again with the
\* same criteria returns it unchanged.
C18_FilterIdempotent ==
  Filtered(currentPage, filtered, searchQuery, selectedCategory, sourceFilter) = filtered

\* C18 witness: the criteria dropped one item of two
C18_Witness ==
  /\ ~NoCriteria
  /\ Len(catalog) = MaxCatalog /\ Len(filtered) = 1

\* s is a subsequence of t: the items of s are items of t, in t's order
IsSubsequence(s, t) ==
  \E f \in [1..Len(s) -> 1..Len(t)] :
    /\ \A i \in 1..Len(s) : s[i] = t[f[i]]
    /\ \A i, j \in 1..Len(s) : i < j => f[i] < f[j]

\* C19: the filtered list is a subsequence of the catalog on every listing
\* page and for every criteria: catalog items only, none more often than
\* in the catalog, in the catalog's order; an empty catalog gives an empty
\* list.
C19_OrderPreserving ==
  /\ IsSubsequence(filtered, catalog)
  /\ catalog = <<>> => filtered = <<>>

\* C19 witness: two different items pass criteria that are not the initial
\* ones, in catalog order
C19_Witness ==
  /\ ~NoCriteria
  /\ Len(filtered) = 2 /\ filtered[1] # filtered[2]
  /\ filtered = catalog

\* the favorites arrays a listing page can be given
FavoritesProps ==
  {<<>>} \cup {<<id>> : id \in Ids} \cup
  {<<id1, id2>> : id1, id2 \in {<<x, y>> \in Ids \X Ids : x # y}}

\* the items of the rendered cards
CardItems(cards) == [i \in 1..Len(cards) |-> cards[i].item]

C21_HydrationPrecedesToggles ==
  [][\A type \in ToggleDomains : \A id \in CatalogIds(type) :
       Accepted(type, id) =>
         ~\E i \in 1..Len(callbacks) : callbacks[i].uid = user]_vars

\* C22: a hydration that resolves with a profile replaces the whole
\* FavoritesState with the fetched profile's favorites, whatever optimistic
\* toggle was applied locally while the fetch was in flight.
C22_HydrationOverwrites ==
  [][\A i \in 1..MaxCallbacks :
       (GetProfileResolve(i) /\ callbacks[i].uid \in DOMAIN users) =>
         favorites' = users[callbacks[i].uid]]_vars

\* C22 witness: an id was added optimistically during the fetch, its remote
\* call is still pending, and FavoritesState is the stored profile, in
\* which the id is absent
C22_Witness ==
  /\ user # NoUser /\ user \in DOMAIN users /\ callbacks = <<>>
  /\ favorites = users[user]
  /\ \E d \in DOMAIN favorites : favorites[d] # <<>>
  /\ \E i \in 1..Len(toggles) :
       /\ toggles[i].uid = user
       /\ ~toggles[i].isFavorite /\ ~toggles[i].sameId
       /\ ~IsFav(favorites, toggles[i].type, toggles[i].id)

\* C23: every domain's local favorites collection holds each item id at
\* most once, in every reachable state.
C23_FavoritesAreSets ==
  \A d \in DOMAIN favorites :
    \A i, j \in 1..Len(favorites[d]) :
      favorites[d][i] = favorites[d][j] => i = j

\* C24: local state mirrors the remote profile at quiescence: whenever an
\* Identity is present, no auth report, hydration, sign-in or remote
\* favorites call is in flight and toggles were made, the local membership
\* of every (domain, id) equals its membership in the remote profile of
\* that uid.
C24_MirrorsRemote ==
  (Settled /\ user # NoUser /\ nToggles > 0) =>
    /\ user \in DOMAIN users
    /\ \A d \in Domains : \A id \in Ids :
          IsFav(favorites, d, id) = IsFav(users[user], d, id)

\* C25: the remote mutation matches the toggle: an accepted toggle issues
\* one remote call, for the uid of the Identity present at the request and
\* for the toggled domain and id; once the store has applied it the id is a
\* member of that profile's set iff it was not a member of the local set at
\* request time (add), and not a member otherwise (remove).
C25_RemoteMatchesToggle ==
  [][/\ \A type \in ToggleDomains : \A id \in CatalogIds(type) :
          Accepted(type, id) =>
            /\ Len(toggles') = Len(toggles) + 1
            /\ toggles'[Len(toggles')].uid = user
            /\ toggles'[Len(toggles')].type = type
            /\ toggles'[Len(toggles')].id = id
            /\ toggles'[Len(toggles')].isFavorite = IsFav(favorites, type, id)
            /\ (backend = "mock" /\ toggles'[Len(toggles')].outcome = "resolved"
                  /\ user \in DOMAIN users) =>
                 IsFav(users'[user], type, id) = ~IsFav(favorites, type, id)
     /\ \A i \in 1..MaxToggles :
          (backend = "firestore" /\ ToggleResolve(i)) =>
            IsFav(users'[toggles[i].uid], toggles[i].type, toggles[i].id)
              = ~toggles[i].isFavorite]_vars

\* C25 witness: the remote profile that held skill "a" no longer holds it
\* after the toggles of its owner were applied
C25_Witness ==
  /\ user \in DOMAIN users /\ toggles = <<>> /\ nToggles > 0
  /\ IsFav(users[user], "plugins", "a")
  /\ ~IsFav(users[user], "skills", "a")
  /\ ~IsFav(favorites, "skills", "a")

\* the search rule of the MCP servers page, spelled out for one server
RuleSearchServer(server) ==
  \/ searchQuery = <<>>
  \/ StrIncludes(ToLowerCase(server.name), ToLowerCase(searchQuery))
  \/ StrIncludes(ToLowerCase(server.description), ToLowerCase(searchQuery))
  \/ StrIncludes(ToLowerCase(server.author), ToLowerCase(searchQuery))

\* C26: on the MCP servers page a server of the catalog is in the filtered
\* list iff its category matches (or "All") and the query is empty or,
\* lowercased, a substring of the lowercased name, description or author.
C26_ServerMatchingRule ==
  currentPage = "mcp" =>
    \A i \in 1..Len(catalog) :
      Includes(filtered, catalog[i]) <=>
        (RuleCategory(catalog[i]) /\ RuleSearchServer(catalog[i]))

\* C26 witness: a query in capitals matches one server through its author
\* only and not the other server of the catalog
C26_Witness ==
  /\ currentPage = "mcp"
  /\ searchQuery = <<"A", "b">>
  /\ Len(catalog) = MaxCatalog /\ Len(filtered) = 1
  /\ ~StrIncludes(ToLowerCase(filtered[1].name), ToLowerCase(searchQuery))
  /\ ~StrIncludes(ToLowerCase(filtered[1].description), ToLowerCase(searchQuery))

\* C27: FavoritesState changes only in a toggle (optimistic update or its
\* rollback), in a hydration, and in the clear on sign-out, on an anonymous
\* report or on the reload after sign-out; page navigation and the login
\* page's onLogin callback leave it unchanged.
C27_WritersOfFavorites ==
  [][/\ favorites' # favorites =>
          \/ \E type \in ToggleDomains : \E id \in CatalogIds(type) :
                HandleToggleFavorite(type, id)
          \/ \E i \in 1..MaxToggles : ToggleReject(i)
          \/ \E i \in 1..MaxCallbacks : GetProfileResolve(i)
          \/ AuthCallback /\ NoIdentityReport
          \/ HandleLogout
          \/ LoginPageLogout
     /\ (\E page \in NavPages : HandlePageChange(page)) => favorites' = favorites
     /\ (LoginCreateGetDoc \/ LoginCreateSetDoc
           \/ \E p \in Providers : MockSocialLogin(p)) => favorites' = favorites]_vars

\* C27 witness: the user went back to the home page with a favorite set
\* and its remote call in flight
C27_Witness ==
  /\ currentPage = "home" /\ user # NoUser
  /\ \E i \in 1..Len(toggles) :
       /\ ~toggles[i].isFavorite
       /\ IsFav(favorites, toggles[i].type, toggles[i].id)

\* the favorites object after differs from before in domain type at most
SameButFor(after, before, type) ==
  /\ DOMAIN after \ {type} = DOMAIN before \ {type}
  /\ \A d \in DOMAIN before \ {type} : after[d] = before[d]

\* C28: domains are independent: the optimistic update, the remote mutation
\* and the rollback of toggle(domain, id) leave the local and the remote
\* favorites sets of the other three domains as they were, also when the
\* same id is an item of several domains.
C28_DomainsIndependent ==
  [][/\ \A type \in ToggleDomains : \A id \in CatalogIds(type) :
          Accepted(type, id) =>
            /\ SameButFor(favorites', favorites, type)
            /\ \A u \in DOMAIN users :
                 u \in DOMAIN users' /\ SameButFor(users'[u], users[u], type)
     /\ \A i \in 1..MaxToggles :
          ToggleResolve(i) =>
            /\ favorites' = favorites
            /\ \A u \in DOMAIN users :
                 u \in DOMAIN users' /\ SameButFor(users'[u], users[u], toggles[i].type)
     /\ \A i \in 1..MaxToggles :
          ToggleReject(i) =>
            /\ SameButFor(favorites', favorites, toggles[i].type)
            /\ users' = users]_vars

\* C28 witness: id "a" is an item of two domains, a favorite in both; the
\* toggle on the plugin removed it from the plugins set only
C28_Witness ==
  /\ IsFav(favorites, "skills", "a")
  /\ ~IsFav(favorites, "plugins", "a")
  /\ \E i \in 1..Len(toggles) :
       /\ toggles[i].type = "plugins" /\ toggles[i].id = "a"
       /\ toggles[i].isFavorite /\ ~toggles[i].sameId

\* C29: an explicit sign-out reaches the auth capability: after the header
\* logout or the login page's Sign Out the auth capability holds no
\* identity.
C29_SignOutReachesAuth ==
  [][(HandleLogout \/ LoginPageLogout) => currentUser' = NoUser]_vars

\* C30: hydration is bound to its uid: a profile fetch for one uid that
\* resolves while the Identity is another uid leaves FavoritesState as it is.
C30_HydrationBoundToUid ==
  [][\A i \in 1..MaxCallbacks :
       (GetProfileResolve(i) /\ user # NoUser /\ callbacks[i].uid # user) =>
         favorites' = favorites]_vars

====
